---- MODULE Spec2Model ----
(***************************************************************************)
(* Model of the OLX-Scraper Dashboard (frontend/src/components/            *)
(* Dashboard.tsx) together with the backend it calls.  The Dashboard is    *)
(* translated from its source; the backend (Store, Scheduler, Fetcher),    *)
(* whose code is not part of the frontend sources, is modelled from the    *)
(* written specification.                                                  *)
(***************************************************************************)
EXTENDS Integers, Sequences, FiniteSets, TLC

\* ------------------------------------------------------------------ bounds
\* User events are enabled while the requests issued so far, plus those the
\* event sends at once and after its first await, stay within MaxRequests.
MaxRequests == 4
\* Cap on the retry counter (unbounded in the code).
MaxRetry == 1

\* ------------------------------------------------------------ basic values
Null == "null"
NoToken == "none"
Tokens == {"tok"}

\* Strings are sequences of characters; toLowerCase maps each character.
LowerChar(c) ==
    CASE c = "A" -> "a"
      [] c = "B" -> "b"
      [] OTHER -> c

RECURSIVE toLowerCase(_)
toLowerCase(s) ==
    IF s = <<>> THEN <<>> ELSE <<LowerChar(Head(s))>> \o toLowerCase(Tail(s))

\* String.prototype.includes: sub occurs in s as a contiguous substring.
includes(s, sub) ==
    \E i \in 0..(Len(s) - Len(sub)) :
        \A j \in 1..Len(sub) : s[i + j] = sub[j]

\* The ads the source site can show: id and display fields.
Catalogue ==
    { [id |-> 1, title |-> <<"A", "b">>, price |-> <<"1">>, location |-> <<"b", "a">>],
      [id |-> 2, title |-> <<"B">>, price |-> <<"2">>, location |-> <<"a", "A">>] }

AdIds == {c.id : c \in Catalogue}

\* Search-box contents the user types.
Queries == { <<>>, <<"a">>, <<"A", "B">>, <<"2">>, <<"b", "A">> }

\* --------------------------------------------------------------- variables
VARIABLES
    \* Dashboard component state (useState hooks) and its auth context
    token, lifecycle, listings, loading, error, showOnlyUnseen, scraping,
    searchQuery, retryCount, stats,
    \* HTTP requests in flight, and how many were issued so far
    reqs, issued,
    \* outcome of the fetchListings call that settled last, and the request
    \* (id, include_seen) whose response the listings held were taken from
    lastFetch,
    \* backend: persisted listings and the clock
    store, now,
    \* backend Scheduler: its state, the Run Record of the current (or last)
    \* run, the Run Record emitted last, the runs started and finished, and
    \* the on-demand triggers rejected during the current run
    schedState, run, emitted, started, finished, rejected

vars == <<token, lifecycle, listings, loading, error, showOnlyUnseen, scraping,
          searchQuery, retryCount, stats, reqs, issued, lastFetch, store, now,
          schedState, run, emitted, started, finished, rejected>>

schedVars == <<schedState, run, emitted, started, finished, rejected>>

dashVars == <<token, lifecycle, listings, loading, error, showOnlyUnseen,
              scraping, searchQuery, retryCount, stats, reqs, issued, lastFetch>>

\* ------------------------------------------------------ timestamps (ISO)
\* scraped_at travels as an ISO-8601 string, here <<day, hour>> with two
\* hours per day; new Date(s).getTime() turns it back into a number.
toISOString(t) == <<t \div 2, t % 2>>
getTime(iso) == iso[1] * 2 + iso[2]

\* --------------------------------------------- backend Store (section 4.3)
Row(c, t) ==
    [id |-> c.id, title |-> c.title, price |-> c.price, location |-> c.location,
     scraped_at |-> toISOString(t), seen |-> FALSE]

StoreIds(st) == {x.id : x \in st}

Unseen(st) == {x \in st : ~x.seen}

storeStats(st) == [total |-> Cardinality(st), unseen |-> Cardinality(Unseen(st))]

\* An upsert: a known id gets a fresh row in place of the persisted one.
RECURSIVE ReconcileUpsert(_, _, _)
ReconcileUpsert(st, cands, t) ==
    IF cands = <<>>
    THEN [store |-> st, newly_added |-> 0, duplicates |-> 0]
    ELSE LET c == Head(cands)
             known == c.id \in {x.id : x \in st}
             r == ReconcileUpsert({x \in st : x.id # c.id} \cup {Row(c, t)},
                                  Tail(cands), t)
         IN [store |-> r.store,
             newly_added |-> r.newly_added + (IF known THEN 0 ELSE 1),
             duplicates |-> r.duplicates + (IF known THEN 1 ELSE 0)]

\* reconcile: insert unknown ids with scraped_at = now and seen = false,
\* discard candidates whose id is already persisted.
RECURSIVE Reconcile(_, _, _)
Reconcile(st, cands, t) ==
    IF cands = <<>>
    THEN [store |-> st, newly_added |-> 0, duplicates |-> 0]
    ELSE LET c == Head(cands)
             known == c.id \in StoreIds(st)
             r == Reconcile(IF known THEN st ELSE st \cup {Row(c, t)}, Tail(cands), t)
         IN [store |-> r.store,
             newly_added |-> r.newly_added + (IF known THEN 0 ELSE 1),
             duplicates |-> r.duplicates + (IF known THEN 1 ELSE 0)]

\* markSeen: set seen = true on every matching row, ignore unknown ids.
markSeen(st, ids) ==
    {IF x.id \in ids THEN [x EXCEPT !.seen = TRUE] ELSE x : x \in st}

\* A set of rows as a sequence, in id order.
RECURSIVE SeqOfSet(_)
SeqOfSet(S) ==
    IF S = {} THEN <<>>
    ELSE LET x == CHOOSE y \in S : \A z \in S : y.id <= z.id
         IN <<x>> \o SeqOfSet(S \ {x})

\* list(filter): all rows, or only the unseen ones.
storeList(st, includeSeen) ==
    SeqOfSet(IF includeSeen THEN st ELSE Unseen(st))

\* Run Record (section 3); NoRun before any run.
NewRun(trigger) ==
    [outcome |-> "Running", trigger |-> trigger, fetched |-> 0, parsed |-> 0,
     new |-> 0, duplicates |-> 0, parse_skipped |-> 0, reason |-> "none",
     ids |-> {}]

NoRun == [NewRun("none") EXCEPT !.outcome = "none"]

\* ------------------------------------------------------ HTTP requests
NoStats == [total |-> 0, unseen |-> 0]

NoResp ==
    [status |-> 0, code |-> "none", isArray |-> FALSE, items |-> <<>>,
     total_listings |-> 0, unseen_listings |-> 0]

\* A request as sent by axios, with what its awaiting caller holds:
\* tok / sou are the token and showOnlyUnseen captured by the closure that
\* sent it, caller the function awaiting a GET (effect, retry, scrape, mark),
\* frame the POST /scrape response the awaiting scrapeListings call holds.
\* format is the export format, ids the body of a mark-seen request.
Request(kind, tok, includeSeen, format, ids, sou, caller, frame) ==
    [id |-> issued + 1, kind |-> kind, tok |-> tok, includeSeen |-> includeSeen,
     format |-> format, ids |-> ids, sou |-> sou, caller |-> caller,
     frame |-> frame, phase |-> "sent", resp |-> NoResp]

Outstanding(kind) == {r \in reqs : r.kind = kind}

\* The responses an entry of a GET /listings array can be: a listing object,
\* an object failing a field check, or null.
Item(kind, row) == [kind |-> kind, val |-> row]

NoRow ==
    [id |-> 0, title |-> <<>>, price |-> <<>>, location |-> <<>>,
     scraped_at |-> <<0, 0>>, seen |-> FALSE]

RECURSIVE Items(_)
Items(rows) ==
    IF rows = <<>> THEN <<>> ELSE <<Item("ok", Head(rows))>> \o Items(Tail(rows))

\* Failures axios reports: an HTTP status, or an error code without response.
ErrorResponses ==
    { [NoResp EXCEPT !.status = 401, !.code = "ERR_BAD_REQUEST"],
      [NoResp EXCEPT !.status = 500, !.code = "ERR_BAD_RESPONSE"],
      [NoResp EXCEPT !.code = "ERR_NETWORK"],
      [NoResp EXCEPT !.code = "ECONNABORTED"] }

\* The catch blocks of the POSTs tell a 401 from every other failure only:
\* one failure of each kind stands for them.
PostErrorResponses ==
    {e \in ErrorResponses : e.code \in {"ERR_BAD_REQUEST", "ERR_NETWORK"}}

\* What a 200 body of GET /listings can be besides the listing array: the
\* array with one more entry that is malformed or null, or no array at all.
Malformed(resp) ==
    { [resp EXCEPT !.items = <<Item("badfield", NoRow)>> \o resp.items],
      [resp EXCEPT !.items = <<Item("null", NoRow)>> \o resp.items],
      [resp EXCEPT !.isArray = FALSE, !.items = <<>>] }

\* What the await of request r can resolve or reject with: a failure at any
\* time, or the response once the backend has answered.
Deliverable(r) ==
    (IF r.kind = "GET" THEN ErrorResponses ELSE PostErrorResponses) \cup
    (IF r.phase # "done" THEN {}
     ELSE IF r.kind = "GET" THEN {r.resp} \cup Malformed(r.resp)
     ELSE {r.resp})

\* ------------------------------------------------ Dashboard: fetchListings
\* The validListings filter (typeof checks on id, title, price, location,
\* link).  A null entry passes typeof === 'object' and then throws on .id.
Throws(items) == \E i \in 1..Len(items) : items[i].kind = "null"

IsValidListing(item) == item.kind = "ok"

RECURSIVE Vals(_)
Vals(items) ==
    IF items = <<>> THEN <<>> ELSE <<Head(items).val>> \o Vals(Tail(items))

validListings(items) == Vals(SelectSeq(items, IsValidListing))

CountUnseen(ls) == Len(SelectSeq(ls, LAMBDA l : ~l.seen))

\* The catch block with the network test ahead of the 401 test.
fetchErrorNetworkFirst(resp) ==
    IF resp.code = "ERR_NETWORK"
    THEN "Network error. Please check if the server is running."
    ELSE IF resp.status = 401 THEN "Session expired. Please login again."
    ELSE IF resp.status = 500 THEN "Server error: detail"
    ELSE "Failed to fetch listings: detail"

\* Message chosen by the catch block of fetchListings for an axios error.
fetchErrorMessage(resp) ==
    IF resp.status = 401 THEN "Session expired. Please login again."
    ELSE IF resp.code = "ERR_NETWORK"
         THEN "Network error. Please check if the server is running."
    ELSE IF resp.status = 500 THEN "Server error: detail"
    ELSE "Failed to fetch listings: detail"

\* A state setter of the component: React drops the update once the
\* component is unmounted.
setState(old, new) == IF lifecycle = "unmounted" THEN old ELSE new

\* fetchListings up to its await: with the closure's token and showOnlyUnseen.
\* pending is the set of requests still in flight when it is called.
fetchListings(tok, sou, caller, frame, pending) ==
    IF tok = NoToken
    THEN /\ error' = setState(error, "Authentication token is missing")
         /\ loading' = setState(loading, FALSE)
         /\ reqs' = pending
         /\ issued' = issued
    ELSE /\ loading' = setState(loading, TRUE)
         /\ error' = setState(error, Null)
         /\ reqs' = pending \cup {Request("GET", tok, ~sou, "", {}, sou, caller, frame)}
         /\ issued' = issued + 1

\* A fetchListings that empties listings and stats when the fetch fails.
fetchListingsSettleClearing(r, resp) ==
    /\ r \in reqs /\ r.kind = "GET"
    /\ LET good == resp.status = 200 /\ resp.isArray /\ ~Throws(resp.items)
           valid == IF good THEN validListings(resp.items) ELSE <<>>
       IN /\ listings' = setState(listings, valid)
          /\ stats' = setState(stats, [total |-> Len(valid),
                                       unseen |-> CountUnseen(valid)])
          /\ retryCount' = IF good THEN setState(retryCount, 0) ELSE retryCount
          /\ error' = IF good THEN error
                      ELSE IF resp.status = 200 /\ resp.isArray
                           THEN setState(error, "Failed to fetch listings. Please try again.")
                      ELSE IF resp.status = 200
                           THEN setState(error, "Invalid response format from server")
                      ELSE setState(error, fetchErrorMessage(resp))
          /\ lastFetch' = IF good
                          THEN setState(lastFetch, [ok |-> TRUE, includeSeen |-> r.includeSeen,
                                                    id |-> r.id])
                          ELSE setState(lastFetch, [lastFetch EXCEPT !.ok = FALSE])
    /\ loading' = setState(loading, FALSE)
    /\ scraping' = IF r.caller = "scrape" THEN setState(scraping, FALSE) ELSE scraping
    /\ reqs' = reqs \ {r}
    /\ UNCHANGED <<token, lifecycle, showOnlyUnseen, searchQuery, issued, store, now>>
    /\ UNCHANGED schedVars

\* fetchListings from the response on: try body, catch, finally; then the
\* finally of scrapeListings when that is the caller awaiting it.
fetchListingsSettle(r, resp) ==
    /\ r \in reqs /\ r.kind = "GET"
    /\ LET good == resp.status = 200 /\ resp.isArray /\ ~Throws(resp.items)
           valid == validListings(resp.items)
       IN /\ listings' = IF good THEN setState(listings, valid) ELSE listings
          /\ stats' = IF good
                      THEN setState(stats, [total |-> Len(valid),
                                            unseen |-> CountUnseen(valid)])
                      ELSE stats
          /\ retryCount' = IF good THEN setState(retryCount, 0) ELSE retryCount
          /\ error' = IF good THEN error
                      ELSE IF resp.status = 200 /\ resp.isArray
                           THEN setState(error, "Failed to fetch listings. Please try again.")
                      ELSE IF resp.status = 200
                           THEN setState(error, "Invalid response format from server")
                      ELSE setState(error, fetchErrorMessage(resp))
          /\ lastFetch' = IF good
                          THEN setState(lastFetch, [ok |-> TRUE, includeSeen |-> r.includeSeen,
                                                    id |-> r.id])
                          ELSE setState(lastFetch, [lastFetch EXCEPT !.ok = FALSE])
    /\ loading' = setState(loading, FALSE)
    /\ scraping' = IF r.caller = "scrape" THEN setState(scraping, FALSE) ELSE scraping
    /\ reqs' = reqs \ {r}
    /\ UNCHANGED <<token, lifecycle, showOnlyUnseen, searchQuery, issued, store, now>>
    /\ UNCHANGED schedVars

\* ------------------------------------- Dashboard: filter, sort and guards
\* The filter with the price test left out.
matchesSearchNoPrice(listing, query) ==
    LET searchLower == toLowerCase(query)
    IN \/ includes(toLowerCase(listing.title), searchLower)
       \/ includes(toLowerCase(listing.location), searchLower)

matchesSearch(listing, query) ==
    LET searchLower == toLowerCase(query)
    IN \/ includes(toLowerCase(listing.title), searchLower)
       \/ includes(toLowerCase(listing.location), searchLower)
       \/ includes(toLowerCase(listing.price), searchLower)

\* Array.prototype.sort with (a, b) => time(b) - time(a): stable, descending.
InsertDesc(s, x) ==
    LET k == Cardinality({i \in 1..Len(s) :
                 getTime(s[i].scraped_at) >= getTime(x.scraped_at)})
    IN SubSeq(s, 1, k) \o <<x>> \o SubSeq(s, k + 1, Len(s))

RECURSIVE sortByScrapedAt(_)
sortByScrapedAt(s) ==
    IF s = <<>> THEN <<>>
    ELSE InsertDesc(sortByScrapedAt(SubSeq(s, 1, Len(s) - 1)), s[Len(s)])

filterAndSort(ls, query) ==
    sortByScrapedAt(SelectSeq(ls, LAMBDA l : matchesSearch(l, query)))

filteredAndSortedListings == filterAndSort(listings, searchQuery)

\* The controls are rendered only past the loading and the token guard.
ControlsRendered == lifecycle = "mounted" /\ ~loading /\ token # NoToken

\* The scrape button without its disabled attribute.
scrapeButtonAlwaysEnabled == TRUE

scrapeButtonEnabled == ~scraping

retryButtonRendered == error # Null

markSeenButtonRendered(id) ==
    \E i \in 1..Len(filteredAndSortedListings) :
        filteredAndSortedListings[i].id = id /\ ~filteredAndSortedListings[i].seen

\* Room for n more requests within the bound.
CanIssue(n) == issued + n <= MaxRequests

\* ----------------------------------------------------- Dashboard: events
\* useEffect on mount: fetchListings of the first render.
mountEffect ==
    /\ lifecycle = "init"
    /\ lifecycle' = "mounted"
    /\ fetchListings(token, showOnlyUnseen, "effect", NoStats, reqs)
    /\ UNCHANGED <<token, listings, showOnlyUnseen, scraping, searchQuery,
                   retryCount, stats, lastFetch, store, now>>
    /\ UNCHANGED schedVars

\* Checkbox onChange, then the effect of the render it causes.
setShowOnlyUnseen ==
    /\ ControlsRendered /\ CanIssue(1)
    /\ showOnlyUnseen' = ~showOnlyUnseen
    /\ fetchListings(token, ~showOnlyUnseen, "effect", NoStats, reqs)
    /\ UNCHANGED <<token, lifecycle, listings, scraping, searchQuery,
                   retryCount, stats, lastFetch, store, now>>
    /\ UNCHANGED schedVars

setSearchQuery(q) ==
    /\ ControlsRendered /\ q # searchQuery
    /\ searchQuery' = q
    /\ UNCHANGED <<token, lifecycle, listings, loading, error, showOnlyUnseen,
                   scraping, retryCount, stats, reqs, issued, lastFetch, store, now>>
    /\ UNCHANGED schedVars

handleRetry ==
    /\ ControlsRendered /\ retryButtonRendered
    /\ retryCount < MaxRetry /\ CanIssue(1)
    /\ retryCount' = retryCount + 1
    /\ fetchListings(token, showOnlyUnseen, "retry", NoStats, reqs)
    /\ UNCHANGED <<token, lifecycle, listings, showOnlyUnseen, scraping,
                   searchQuery, stats, lastFetch, store, now>>
    /\ UNCHANGED schedVars

\* logout() clears the token of the auth context, navigate('/login') leaves
\* the Dashboard route: the component unmounts, pending awaits stay pending.
handleLogout ==
    /\ ControlsRendered
    /\ token' = NoToken
    /\ lifecycle' = "unmounted"
    /\ UNCHANGED <<listings, loading, error, showOnlyUnseen, scraping, searchQuery,
                   retryCount, stats, reqs, issued, lastFetch, store, now>>
    /\ UNCHANGED schedVars

\* scrapeListings up to its await of POST /scrape.
scrapeListings ==
    /\ ControlsRendered /\ scrapeButtonEnabled /\ CanIssue(2)
    /\ scraping' = TRUE
    /\ reqs' = reqs \cup
         {Request("SCRAPE", token, FALSE, "", {}, showOnlyUnseen, "none", NoStats)}
    /\ issued' = issued + 1
    /\ UNCHANGED <<token, lifecycle, listings, loading, error, showOnlyUnseen,
                   searchQuery, retryCount, stats, lastFetch, store, now>>
    /\ UNCHANGED schedVars

\* A catch block that swallows the failure.
scrapeErrorSwallowed(resp) == Null

scrapeErrorMessage(resp) ==
    IF resp.status = 401 THEN "Session expired. Please login again."
    ELSE "Failed to scrape listings: detail"

\* A scrapeListings whose failure path never reaches setScraping(false).
scrapeListingsSettleNoFinally(r, resp) ==
    /\ r \in reqs /\ r.kind = "SCRAPE"
    /\ IF resp.status = 200
       THEN LET s == [total |-> resp.total_listings,
                      unseen |-> resp.unseen_listings]
            IN /\ stats' = setState(stats, s)
               /\ fetchListings(r.tok, r.sou, "scrape", s, reqs \ {r})
               /\ scraping' = IF r.tok = NoToken THEN setState(scraping, FALSE)
                               ELSE scraping
       ELSE /\ error' = setState(error, scrapeErrorMessage(resp))
            /\ scraping' = scraping
            /\ reqs' = reqs \ {r}
            /\ UNCHANGED <<stats, loading, issued>>
    /\ UNCHANGED <<token, lifecycle, listings, showOnlyUnseen, searchQuery,
                   retryCount, lastFetch, store, now>>
    /\ UNCHANGED schedVars

\* scrapeListings from the POST response on: setStats and the refresh, or
\* the catch and finally blocks.
scrapeListingsSettle(r, resp) ==
    /\ r \in reqs /\ r.kind = "SCRAPE"
    /\ IF resp.status = 200
       THEN LET s == [total |-> resp.total_listings,
                      unseen |-> resp.unseen_listings]
            IN /\ stats' = setState(stats, s)
               /\ fetchListings(r.tok, r.sou, "scrape", s, reqs \ {r})
               /\ scraping' = IF r.tok = NoToken THEN setState(scraping, FALSE)
                               ELSE scraping
       ELSE /\ error' = setState(error, scrapeErrorMessage(resp))
            /\ scraping' = setState(scraping, FALSE)
            /\ reqs' = reqs \ {r}
            /\ UNCHANGED <<stats, loading, issued>>
    /\ UNCHANGED <<token, lifecycle, listings, showOnlyUnseen, searchQuery,
                   retryCount, lastFetch, store, now>>
    /\ UNCHANGED schedVars

\* markAsSeen([listing.id]) up to its await of POST /listings/mark-seen.
markAsSeen(id) ==
    /\ ControlsRendered /\ markSeenButtonRendered(id) /\ CanIssue(2)
    /\ reqs' = reqs \cup
         {Request("MARK", token, FALSE, "", {id}, showOnlyUnseen, "none", NoStats)}
    /\ issued' = issued + 1
    /\ UNCHANGED <<token, lifecycle, listings, loading, error, showOnlyUnseen,
                   scraping, searchQuery, retryCount, stats, lastFetch, store, now>>
    /\ UNCHANGED schedVars

markErrorMessage(resp) ==
    IF resp.status = 401 THEN "Session expired. Please login again."
    ELSE "Failed to mark listings as seen: detail"

markAsSeenSettle(r, resp) ==
    /\ r \in reqs /\ r.kind = "MARK"
    /\ IF resp.status = 200
       THEN fetchListings(r.tok, r.sou, "mark", NoStats, reqs \ {r})
       ELSE /\ error' = setState(error, markErrorMessage(resp))
            /\ reqs' = reqs \ {r}
            /\ UNCHANGED <<loading, issued>>
    /\ UNCHANGED <<token, lifecycle, listings, showOnlyUnseen, scraping,
                   searchQuery, retryCount, stats, lastFetch, store, now>>
    /\ UNCHANGED schedVars

\* An export whose include_seen is showOnlyUnseen itself.
exportListingsSameFlag(format) ==
    /\ ControlsRendered /\ CanIssue(1)
    /\ reqs' = reqs \cup
         {Request("EXPORT", token, showOnlyUnseen, format, {}, showOnlyUnseen,
                  "none", NoStats)}
    /\ issued' = issued + 1
    /\ UNCHANGED <<token, lifecycle, listings, loading, error, showOnlyUnseen,
                   scraping, searchQuery, retryCount, stats, lastFetch, store, now>>
    /\ UNCHANGED schedVars

\* exportListings(format) up to its await of POST /listings/export.
exportListings(format) ==
    /\ ControlsRendered /\ CanIssue(1)
    /\ reqs' = reqs \cup
         {Request("EXPORT", token, ~showOnlyUnseen, format, {}, showOnlyUnseen,
                  "none", NoStats)}
    /\ issued' = issued + 1
    /\ UNCHANGED <<token, lifecycle, listings, loading, error, showOnlyUnseen,
                   scraping, searchQuery, retryCount, stats, lastFetch, store, now>>
    /\ UNCHANGED schedVars

exportErrorMessage(resp) ==
    IF resp.status = 401 THEN "Session expired. Please login again."
    ELSE "Failed to export listings: detail"

exportListingsSettle(r, resp) ==
    /\ r \in reqs /\ r.kind = "EXPORT"
    /\ error' = IF resp.status = 200 THEN error
                ELSE setState(error, exportErrorMessage(resp))
    /\ reqs' = reqs \ {r}
    /\ UNCHANGED <<token, lifecycle, listings, loading, showOnlyUnseen, scraping,
                   searchQuery, retryCount, stats, issued, lastFetch, store, now>>
    /\ UNCHANGED schedVars

\* --------------------------------------- backend: the HTTP layer (section 6)
Respond(r, resp) ==
    reqs' = (reqs \ {r}) \cup {[r EXCEPT !.phase = "done", !.resp = resp]}

\* GET listings?include_seen={bool}
serveListings(r) ==
    /\ r \in reqs /\ r.kind = "GET" /\ r.phase = "sent"
    /\ Respond(r, [NoResp EXCEPT !.status = 200, !.code = "ok", !.isArray = TRUE,
                                 !.items = Items(storeList(store, r.includeSeen))])
    /\ UNCHANGED <<token, lifecycle, listings, loading, error, showOnlyUnseen,
                   scraping, searchQuery, retryCount, stats, issued, lastFetch,
                   store, now>>
    /\ UNCHANGED schedVars

\* POST scrape: a run reconciles the candidates found and answers with the
\* Store's counts right after it.
serveScrape(r, cands) ==
    /\ r \in reqs /\ r.kind = "SCRAPE" /\ r.phase = "sent"
    /\ LET st == Reconcile(store, cands, now).store
       IN /\ store' = st
          /\ Respond(r, [NoResp EXCEPT !.status = 200, !.code = "ok",
                                       !.total_listings = storeStats(st).total,
                                       !.unseen_listings = storeStats(st).unseen])
    /\ now' = now + 1
    /\ UNCHANGED <<token, lifecycle, listings, loading, error, showOnlyUnseen,
                   scraping, searchQuery, retryCount, stats, issued, lastFetch>>
    /\ UNCHANGED schedVars

\* POST listings/mark-seen
serveMarkSeen(r) ==
    /\ r \in reqs /\ r.kind = "MARK" /\ r.phase = "sent"
    /\ store' = markSeen(store, r.ids)
    /\ Respond(r, [NoResp EXCEPT !.status = 200, !.code = "ok"])
    /\ UNCHANGED <<token, lifecycle, listings, loading, error, showOnlyUnseen,
                   scraping, searchQuery, retryCount, stats, issued, lastFetch, now>>
    /\ UNCHANGED schedVars

\* POST listings/export
serveExport(r) ==
    /\ r \in reqs /\ r.kind = "EXPORT" /\ r.phase = "sent"
    /\ Respond(r, [NoResp EXCEPT !.status = 200, !.code = "ok"])
    /\ UNCHANGED <<token, lifecycle, listings, loading, error, showOnlyUnseen,
                   scraping, searchQuery, retryCount, stats, issued, lastFetch,
                   store, now>>
    /\ UNCHANGED schedVars

\* ------------------------------------------------------- the Dashboard spec
\* The search box stays empty here: a query only hides Mark-as-Seen buttons,
\* and SpecRender covers what the query does to the rendered list.
\* What a run finds on the site: nothing, or the first ad.
Found == {c \in Catalogue : c.id = 1}

CandidateSets == {<<>>, SeqOfSet(Found)}

\* Stores earlier runs can have left behind: empty, the ad unseen, the ad seen.
InitStores ==
    LET one == Reconcile({}, SeqOfSet(Found), 0).store
    IN { {}, one, markSeen(one, {1}) }

Init ==
    /\ token \in Tokens \cup {NoToken}
    /\ lifecycle = "init"
    /\ listings = <<>>
    /\ loading = TRUE
    /\ error = Null
    /\ showOnlyUnseen = FALSE
    /\ scraping = FALSE
    /\ searchQuery = <<>>
    /\ retryCount = 0
    /\ stats = [total |-> 0, unseen |-> 0]
    /\ reqs = {}
    /\ issued = 0
    /\ lastFetch = [ok |-> FALSE, includeSeen |-> TRUE, id |-> 0]
    /\ store \in InitStores
    /\ now = 2
    /\ schedState = "Idle" /\ run = NoRun /\ emitted = NoRun
    /\ started = 0 /\ finished = 0 /\ rejected = 0

Next ==
    \/ mountEffect
    \/ setShowOnlyUnseen
    \/ handleRetry
    \/ handleLogout
    \/ scrapeListings
    \/ \E id \in AdIds : markAsSeen(id)
    \/ exportListings("csv")
    \/ \E r \in reqs : \E resp \in Deliverable(r) : fetchListingsSettle(r, resp)
    \/ \E r \in reqs : \E resp \in Deliverable(r) : scrapeListingsSettle(r, resp)
    \/ \E r \in reqs : \E resp \in Deliverable(r) : markAsSeenSettle(r, resp)
    \/ \E r \in reqs : \E resp \in Deliverable(r) : exportListingsSettle(r, resp)
    \/ \E r \in reqs : serveListings(r)
    \/ \E r \in reqs, cands \in CandidateSets : serveScrape(r, cands)
    \/ \E r \in reqs : serveMarkSeen(r)
    \/ \E r \in reqs : serveExport(r)

Spec == Init /\ [][Next]_vars

\* Every request gets a response, an error or a timeout, so the function
\* awaiting it resumes; React runs the mount effect after the first render.
Responsive ==
    /\ WF_vars(mountEffect)
    /\ WF_vars(\E r \in reqs : \E resp \in Deliverable(r) : fetchListingsSettle(r, resp))
    /\ WF_vars(\E r \in reqs : \E resp \in Deliverable(r) : scrapeListingsSettle(r, resp))
    /\ WF_vars(\E r \in reqs : \E resp \in Deliverable(r) : markAsSeenSettle(r, resp))
    /\ WF_vars(\E r \in reqs : \E resp \in Deliverable(r) : exportListingsSettle(r, resp))

SpecLive == Spec /\ Responsive

\* ----------------------------------------------- the rendered-list spec
\* Listings the Dashboard can hold, with equal and distinct scraped_at, and
\* matches in each of title, location and price.
RenderPool ==
    { [id |-> 1, title |-> <<"A", "b">>, price |-> <<"1">>, location |-> <<"c">>,
       scraped_at |-> toISOString(1), seen |-> FALSE],
      [id |-> 2, title |-> <<"c">>, price |-> <<"2">>, location |-> <<"b", "A">>,
       scraped_at |-> toISOString(2), seen |-> TRUE],
      [id |-> 3, title |-> <<"c">>, price |-> <<"a", "B">>, location |-> <<>>,
       scraped_at |-> toISOString(2), seen |-> FALSE],
      [id |-> 4, title |-> <<"B">>, price |-> <<"2">>, location |-> <<"c">>,
       scraped_at |-> toISOString(3), seen |-> FALSE] }

\* Longest listing array held in SpecRender.
MaxLen == 3

SeqsUpTo(S, n) == UNION {[1..k -> S] : k \in 0..n}

InitRender ==
    /\ token \in Tokens
    /\ lifecycle = "mounted"
    /\ listings \in SeqsUpTo(RenderPool, MaxLen)
    /\ loading = FALSE
    /\ error = Null
    /\ showOnlyUnseen = FALSE
    /\ scraping = FALSE
    /\ searchQuery = <<>>
    /\ retryCount = 0
    /\ stats = [total |-> Len(listings), unseen |-> CountUnseen(listings)]
    /\ reqs = {}
    /\ issued = 1
    /\ lastFetch = [ok |-> TRUE, includeSeen |-> TRUE, id |-> 1]
    /\ store = {}
    /\ now = 4
    /\ schedState = "Idle" /\ run = NoRun /\ emitted = NoRun
    /\ started = 0 /\ finished = 0 /\ rejected = 0

NextRender == \E q \in Queries : setSearchQuery(q)

SpecRender == InitRender /\ [][NextRender]_vars

\* ------------------------------------- backend core (sections 4.1 - 4.4)
\* Pages a run fetches at most (maxPages of the source query).
MaxPages == 2
\* Runs started in a behaviour, and rejections counted during one run.
MaxRuns == 2
MaxRejected == 2

\* Raw entries of a page: the ad's id as found in its link (0: the entry has
\* no link), and the displayed fields.
RawEntry(c, price) ==
    [id |-> c.id, link |-> <<"/", "d">>, title |-> c.title, price |-> price,
     location |-> c.location]

RawPages ==
    LET ad1 == CHOOSE c \in Catalogue : c.id = 1
        ad2 == CHOOSE c \in Catalogue : c.id = 2
        noLink == [RawEntry(ad2, ad2.price) EXCEPT !.id = 0, !.link = <<>>]
    IN { <<>>,
         <<RawEntry(ad1, ad1.price), noLink>>,
         <<RawEntry(ad2, ad2.price), RawEntry(ad1, <<"9">>)>> }

\* parse: a candidate per entry that has a link and a title.
hasLinkAndTitle(e) == e.link # <<>> /\ e.title # <<>>

RECURSIVE Candidates(_)
Candidates(entries) ==
    IF entries = <<>> THEN <<>>
    ELSE <<[id |-> Head(entries).id, title |-> Head(entries).title,
            price |-> Head(entries).price, location |-> Head(entries).location]>>
         \o Candidates(Tail(entries))

parse(page) == Candidates(SelectSeq(page, hasLinkAndTitle))

CandidateIds(cands) == {cands[i].id : i \in 1..Len(cands)}

FetchErrors == {"Timeout", "Unreachable", "Blocked"}

\* A trigger starts a run only from Idle.
acceptsAlways == TRUE

acceptsTrigger == schedState = "Idle"

StartRun(trigger) ==
    /\ run' = NewRun(trigger)
    /\ started' = started + 1
    /\ rejected' = 0
    /\ schedState' = "Running"
    /\ now' = now + 1

\* Leaving Running: the Run Record is finalized and emitted.
FinishRun(rec) ==
    /\ run' = rec
    /\ emitted' = rec
    /\ finished' = finished + 1
    /\ schedState' = "Idle"

\* On-demand request: starts a run, or is rejected with AlreadyRunning.
onDemandTrigger ==
    /\ IF acceptsTrigger
       THEN /\ started < MaxRuns
            /\ StartRun("onDemand")
            /\ UNCHANGED <<emitted, finished>>
       ELSE /\ rejected < MaxRejected
            /\ rejected' = rejected + 1
            /\ UNCHANGED <<run, schedState, emitted, started, finished, now>>
    /\ UNCHANGED <<dashVars, store>>

\* Periodic timer: a tick while Idle starts a run.
timerTick ==
    /\ schedState = "Idle" /\ started < MaxRuns
    /\ StartRun("timer")
    /\ UNCHANGED <<dashVars, store, emitted, finished>>

\* The Fetcher returns the next page: its entries are parsed and reconciled;
\* a page without candidates ends the run (end of results).
fetchPage(page) ==
    /\ schedState = "Running" /\ run.fetched < MaxPages
    /\ LET cands == parse(page)
           res == Reconcile(store, cands, now)
           rec == [run EXCEPT
                     !.fetched = @ + 1,
                     !.parsed = @ + Len(cands),
                     !.parse_skipped = @ + (Len(page) - Len(cands)),
                     !.new = @ + res.newly_added,
                     !.duplicates = @ + res.duplicates,
                     !.ids = @ \cup CandidateIds(cands)]
       IN /\ store' = res.store
          /\ IF cands = <<>>
             THEN FinishRun([rec EXCEPT !.outcome = "Succeeded"])
             ELSE /\ run' = rec
                  /\ UNCHANGED <<emitted, finished, schedState>>
    /\ UNCHANGED <<dashVars, now, started, rejected>>

\* The bounded page count is reached.
completeRun ==
    /\ schedState = "Running" /\ run.fetched = MaxPages
    /\ FinishRun([run EXCEPT !.outcome = "Succeeded"])
    /\ UNCHANGED <<dashVars, store, now, started, rejected>>

\* Outcome of a run whose Fetcher fails after `fetched` pages.
outcomeAlwaysFailed(fetched) == "Failed"

outcomeOnFetchError(fetched) ==
    IF fetched = 0 THEN "Failed" ELSE "PartiallyFailed"

fetchError(kind) ==
    /\ schedState = "Running" /\ run.fetched < MaxPages
    /\ FinishRun([run EXCEPT !.outcome = outcomeOnFetchError(run.fetched),
                             !.reason = kind])
    /\ UNCHANGED <<dashVars, store, now, started, rejected>>

\* A Store-level error is fatal to the run and corrupts no committed record.
storeError ==
    /\ schedState = "Running" /\ run.fetched < MaxPages
    /\ FinishRun([run EXCEPT !.outcome = "Failed", !.reason = "StoreError"])
    /\ UNCHANGED <<dashVars, store, now, started, rejected>>

\* markSeen called by the API layer.
acknowledge(ids) ==
    /\ \E x \in store : x.id \in ids /\ ~x.seen
    /\ store' = markSeen(store, ids)
    /\ UNCHANGED <<dashVars, now, schedVars>>

InitCore ==
    /\ token \in Tokens
    /\ lifecycle = "init"
    /\ listings = <<>>
    /\ loading = TRUE
    /\ error = Null
    /\ showOnlyUnseen = FALSE
    /\ scraping = FALSE
    /\ searchQuery = <<>>
    /\ retryCount = 0
    /\ stats = [total |-> 0, unseen |-> 0]
    /\ reqs = {}
    /\ issued = 0
    /\ lastFetch = [ok |-> FALSE, includeSeen |-> TRUE, id |-> 0]
    /\ store = {}
    /\ now = 0
    /\ schedState = "Idle" /\ run = NoRun /\ emitted = NoRun
    /\ started = 0 /\ finished = 0 /\ rejected = 0

NextCore ==
    \/ onDemandTrigger
    \/ timerTick
    \/ \E page \in RawPages : fetchPage(page)
    \/ completeRun
    \/ \E kind \in FetchErrors : fetchError(kind)
    \/ storeError
    \/ \E ids \in SUBSET AdIds : acknowledge(ids)

SpecCore == InitCore /\ [][NextCore]_vars

\* ================================================================ claims

\* C1: whenever no request is outstanding and the last listing fetch
\* succeeded, the listings held come from a GET /listings whose include_seen
\* is the negation of the checkbox showOnlyUnseen.
C1_ListingsFollowCheckbox ==
    (lifecycle = "mounted" /\ reqs = {} /\ lastFetch.ok)
        => lastFetch.includeSeen = ~showOnlyUnseen

\* A GET /listings awaited by scrapeListings settles successfully in this step.
ScrapeRefreshSucceeds(r) ==
    /\ r \in reqs /\ r.kind = "GET" /\ r.caller = "scrape"
    /\ lifecycle = "mounted"
    /\ \E resp \in Deliverable(r) :
          /\ resp.status = 200 /\ resp.isArray /\ ~Throws(resp.items)
          /\ fetchListingsSettle(r, resp)

\* C2: when scrapeListings finishes with the POST /scrape and the refresh both
\* succeeding, the displayed stats are the total_listings and unseen_listings
\* of the POST /scrape response.
C2_StatsAreScrapeResponse ==
    [][\A r \in Outstanding("GET") :
          (r \notin reqs' /\ ScrapeRefreshSucceeds(r)) => stats' = r.frame]_vars

\* Requests sent in this step.
Sent == {r \in reqs' : r.phase = "sent" /\ r.id > issued}

\* C3: every request sent carries the current non-empty token; with the token
\* missing nothing is sent, and a mounted Dashboard shows the missing-token
\* error with loading false.
C3_RequestsCarryCurrentToken ==
    [][/\ \A r \in Sent : token' # NoToken /\ r.tok = token'
       /\ (token' = NoToken /\ lifecycle' = "mounted")
             => (reqs' = {} /\ ~loading'
                 /\ error' = "Authentication token is missing")]_vars

\* C4: seen never turns back to false, neither in the Store nor in the
\* listings the Dashboard holds.
C4_SeenMonotonic ==
    [][/\ \A x \in store : x.seen =>
             \A y \in store' : y.id = x.id => y.seen
       /\ \A i \in 1..Len(listings), j \in 1..Len(listings') :
             (listings[i].id = listings'[j].id /\ listings[i].seen)
                 => listings'[j].seen]_vars

\* Containment regardless of case, character by character.
SameLetter(a, b) == a = b \/ {a, b} \in {{"a", "A"}, {"b", "B"}}

ContainsIgnoringCase(s, q) ==
    \E i \in 0..(Len(s) - Len(q)) : \A j \in 1..Len(q) : SameLetter(s[i + j], q[j])

Matching(l) ==
    \/ ContainsIgnoringCase(l.title, searchQuery)
    \/ ContainsIgnoringCase(l.location, searchQuery)
    \/ ContainsIgnoringCase(l.price, searchQuery)

Occurrences(s, x) == Cardinality({i \in 1..Len(s) : s[i] = x})

\* C5: the rendered list holds exactly the listings of the state that match
\* the query in title, location or price regardless of case, each as often as
\* the state holds it, most recent scraped_at first.
C5_RenderedList ==
    LET out == filteredAndSortedListings
    IN /\ \A x \in RenderPool :
             Occurrences(out, x) = IF Matching(x) THEN Occurrences(listings, x) ELSE 0
       /\ \A i \in 1..Len(out) : \A j \in i..Len(out) :
             getTime(out[i].scraped_at) >= getTime(out[j].scraped_at)
       /\ searchQuery = <<>> => Len(out) = Len(listings)

\* A mixed-case query that keeps some listings, drops others and reorders.
C5_Witness ==
    /\ searchQuery # toLowerCase(searchQuery)
    /\ Len(filteredAndSortedListings) = 2
    /\ Len(listings) = 3
    /\ filteredAndSortedListings # SelectSeq(listings, Matching)

\* The scrapeListings calls still running: awaiting their POST or their refresh.
ScrapeCalls ==
    {r \in reqs : r.kind = "SCRAPE" \/ (r.kind = "GET" /\ r.caller = "scrape")}

\* C6: at most one POST /scrape is outstanding, and scraping is true from the
\* start of scrapeListings until its POST and its refresh have finished.
C6_OneScrapeAtATime ==
    /\ Cardinality(Outstanding("SCRAPE")) <= 1
    /\ Cardinality(ScrapeCalls) <= 1
    /\ ScrapeCalls # {} => scraping

\* scrapeListings awaits its refresh while the refresh of a toggle is pending.
C6_Witness ==
    /\ scraping
    /\ \E r \in reqs : r.kind = "GET" /\ r.caller = "scrape"
    /\ \E r \in reqs : r.kind = "GET" /\ r.caller = "effect"

ScrapeFailureMessages ==
    {"Session expired. Please login again.", "Failed to scrape listings: detail",
     "Failed to scrape listings. Please try again."}

\* C7: a scrapeListings call whose POST fails ends with the error message of
\* the failure (the session message for 401), listings and stats as before and
\* no refresh issued; one whose POST succeeds sets no error itself.
C7_FailedScrapeShown ==
    [][\A r \in Outstanding("SCRAPE") : \A resp \in Deliverable(r) :
          (lifecycle = "mounted" /\ r \notin reqs' /\ scrapeListingsSettle(r, resp)) =>
              IF resp.status # 200
              THEN /\ error' \in ScrapeFailureMessages
                   /\ (resp.status = 401) =
                          (error' = "Session expired. Please login again.")
                   /\ listings' = listings /\ stats' = stats
                   /\ issued' = issued /\ reqs' = reqs \ {r}
                   /\ ~scraping'
              ELSE /\ error' = Null
                   /\ scraping']_vars

\* A failed scrape on display: the failure message, and scraping over.
C7_Witness ==
    /\ lifecycle = "mounted" /\ ~scraping /\ ~loading
    /\ error = "Failed to scrape listings: detail"
    /\ lastFetch.ok

\* C8: at most one run is Running; an on-demand trigger during a run is
\* rejected with AlreadyRunning, queued nowhere and starts no run, and one
\* from Idle makes the one Idle-to-Running transition.
C8_Exclusion ==
    [][/\ started' - finished' = (IF schedState' = "Running" THEN 1 ELSE 0)
       /\ (onDemandTrigger /\ schedState = "Running") =>
             /\ rejected' = rejected + 1
             /\ run' = run /\ started' = started /\ schedState' = "Running"
             /\ store' = store
       /\ (onDemandTrigger /\ schedState = "Idle") =>
             /\ rejected' = 0
             /\ started' = started + 1 /\ schedState' = "Running"]_vars

\* Two on-demand triggers over one run: one run started, one rejection.
C8_Witness ==
    /\ started = 1 /\ finished = 0 /\ rejected = 1
    /\ schedState = "Running"
    /\ run.trigger = "onDemand" /\ run.fetched = 1

\* Candidate sequences of distinct ids, with the prices a render can show.
DistinctCandidates ==
    LET C == {[id |-> c.id, title |-> c.title, price |-> pr, location |-> c.location] :
                 c \in Catalogue, pr \in {<<"1">>, <<"9">>}}
    IN {s \in SeqsUpTo(C, 2) : \A i, j \in 1..Len(s) : s[i].id = s[j].id => i = j}

\* C9: reconciling a candidate set of N distinct ids twice adds all that are
\* new the first time (N when none is known), then adds none and counts N
\* duplicates, leaves the Store as the first call left it and every existing
\* row as it was, and no id is held twice.
C9_ReconcileIdempotent ==
    \A cands \in DistinctCandidates :
        LET r1 == Reconcile(store, cands, now + 1)
            r2 == Reconcile(r1.store, cands, now + 2)
        IN /\ (CandidateIds(cands) \cap StoreIds(store) = {})
                  => r1.newly_added = Len(cands)
           /\ r1.newly_added + r1.duplicates = Len(cands)
           /\ r2.newly_added = 0 /\ r2.duplicates = Len(cands)
           /\ r2.store = r1.store
           /\ store \subseteq r1.store
           /\ \A x, y \in r1.store : x.id = y.id => x = y

\* A second run met the two ads of the first again: two duplicates, none new,
\* the rows still stamped by the first run, one of them acknowledged.
C9_Witness ==
    /\ finished = 2
    /\ emitted.new = 0 /\ emitted.duplicates = 2
    /\ Cardinality(store) = 2
    /\ \A x \in store : getTime(x.scraped_at) = 1
    /\ \E x \in store : x.seen

\* C10: a run whose Fetcher fails ends PartiallyFailed when pages were
\* retrieved and Failed when none was, what was parsed from the pages fetched
\* is in the Store, and the run that left Running has its Run Record emitted.
C10_PartialFailurePreserved ==
    /\ run.reason \in FetchErrors =>
          run.outcome = (IF run.fetched = 0 THEN "Failed" ELSE "PartiallyFailed")
    /\ run.outcome = "PartiallyFailed" =>
          (run.reason \in FetchErrors /\ run.fetched > 0)
    /\ run.ids \subseteq StoreIds(store)
    /\ schedState = "Idle" => (emitted = run /\ finished = started)
    /\ schedState = "Running" => (run.outcome = "Running" /\ finished = started - 1)

\* The Fetcher failed after a page with candidates: PartiallyFailed is
\* emitted and the page's listing is in the Store.
C10_Witness ==
    /\ schedState = "Idle"
    /\ emitted.outcome = "PartiallyFailed"
    /\ emitted.fetched = 1 /\ emitted.new = 1
    /\ emitted.ids # {} /\ emitted.ids \subseteq StoreIds(store)

\* C11: in every state of the Dashboard stats.total is the number of listings
\* held and stats.unseen the number of those with seen = false.
C11_StatsMatchListings ==
    stats = [total |-> Len(listings), unseen |-> CountUnseen(listings)]

\* C12: a GET /listings array response with a malformed or null entry still
\* refreshes: the listings held become the well-formed entries, no error is
\* set, and every listing held is a well-formed entry.
C12_MalformedEntriesDropped ==
    [][\A r \in Outstanding("GET") : \A resp \in Deliverable(r) :
          (/\ lifecycle = "mounted" /\ r \notin reqs'
           /\ resp.status = 200 /\ resp.isArray
           /\ fetchListingsSettle(r, resp)) =>
              /\ listings' = Vals(SelectSeq(resp.items, LAMBDA it : it.kind = "ok"))
              /\ error' = error
              /\ \A i \in 1..Len(listings') : listings'[i] # NoRow]_vars

\* C13: on a mounted Dashboard loading is true exactly while a GET /listings
\* of fetchListings is outstanding.
C13_LoadingIffFetching ==
    lifecycle = "mounted" => (loading <=> Outstanding("GET") # {})

\* C14: the listings held never go from the response of a request to the
\* response of a request issued before it.
C14_NewestResponseWins ==
    [][lastFetch'.id >= lastFetch.id]_vars

\* The await of request r ends in this step.
Settles(r) == \A q \in reqs' : q.id # r.id

\* The fetchListings call awaiting GET r ends in this step without having
\* taken listings from the response: an HTTP error, a network error or
\* timeout, a body that is no array or one whose filter threw.
FetchFails(r) ==
    /\ Settles(r)
    /\ ~(lastFetch'.ok /\ lastFetch'.id = r.id)

FetchFailureMessages ==
    {"Session expired. Please login again.",
     "Network error. Please check if the server is running.",
     "Server error: detail", "Failed to fetch listings: detail",
     "Failed to fetch listings. Please try again.",
     "Invalid response format from server"}

\* C15: a fetchListings call that fails (missing token, HTTP error, network
\* error or timeout, non-array body) leaves listings, stats and retryCount as
\* they were, sets an error and ends with loading false; retryCount goes down
\* only in the step of a successful fetch.
C15_FailedFetchKeepsData ==
    [][/\ \A r \in Outstanding("GET") :
             (lifecycle = "mounted" /\ FetchFails(r)) =>
                 /\ listings' = listings /\ stats' = stats
                 /\ retryCount' = retryCount
                 /\ error' \in FetchFailureMessages /\ ~loading'
       /\ (token = NoToken /\ lifecycle = "init" /\ lifecycle' = "mounted") =>
             /\ listings' = listings /\ stats' = stats
             /\ retryCount' = retryCount
             /\ error' = "Authentication token is missing"
             /\ ~loading' /\ reqs' = {}
       /\ retryCount' < retryCount =>
             /\ retryCount' = 0
             /\ \E r \in Outstanding("GET") :
                   Settles(r) /\ lastFetch'.ok /\ lastFetch'.id = r.id]_vars

\* A retry that got a non-array body: the listings fetched before are still
\* held, the error is shown and the retry count stands.
C15_Witness ==
    /\ lifecycle = "mounted" /\ ~loading
    /\ error = "Invalid response format from server"
    /\ listings # <<>> /\ stats.total = Len(listings)
    /\ retryCount = 1

\* C16: when every request gets a response, an error or a timeout, loading
\* does not stay true and scraping does not stay true while the Dashboard is
\* mounted, and every scrapeListings call comes to its end.
C16_NeverBusyForever ==
    /\ loading ~> ~loading
    /\ scraping ~> (~scraping \/ lifecycle = "unmounted")
    /\ (ScrapeCalls # {}) ~> (ScrapeCalls = {})

\* Spinner gone and scrape button enabled again after a scrapeListings whose
\* POST succeeded and whose refresh timed out.
C16_Witness ==
    /\ lifecycle = "mounted" /\ reqs = {}
    /\ ~loading /\ ~scraping
    /\ error = "Failed to fetch listings: detail"
    /\ stats.total > Len(listings)

\* HTTP statuses (0: no response) and axios error codes of a failure.
FailureStatuses == {0, 401, 404, 500}
FailureCodes == {"ERR_NETWORK", "ERR_BAD_REQUEST", "ERR_BAD_RESPONSE", "ECONNABORTED"}

ExpectedFetchMessage(status, code) ==
    CASE status = 401 -> "Session expired. Please login again."
      [] status # 401 /\ code = "ERR_NETWORK" ->
             "Network error. Please check if the server is running."
      [] status = 500 /\ code # "ERR_NETWORK" -> "Server error: detail"
      [] OTHER -> "Failed to fetch listings: detail"

\* fetchErrorMessage on every combination of status and code.
FetchClassification ==
    \A st \in FailureStatuses, cd \in FailureCodes :
        fetchErrorMessage([NoResp EXCEPT !.status = st, !.code = cd])
            = ExpectedFetchMessage(st, cd)

\* The function awaiting r resumes with resp in this step.
Resumes(r, resp) ==
    CASE r.kind = "GET" -> fetchListingsSettle(r, resp)
      [] r.kind = "SCRAPE" -> scrapeListingsSettle(r, resp)
      [] r.kind = "MARK" -> markAsSeenSettle(r, resp)
      [] OTHER -> exportListingsSettle(r, resp)

\* The function awaiting r resumes in this step on its failure path: a fetch
\* that took no listings, a scrape or mark-seen that sent no refresh.
EndsInFailure(r) ==
    /\ Settles(r)
    /\ CASE r.kind = "GET" -> ~(lastFetch'.ok /\ lastFetch'.id = r.id)
         [] r.kind \in {"SCRAPE", "MARK"} -> issued' = issued
         [] OTHER -> TRUE

\* C17: a failed listing fetch shows the session message for status 401,
\* else the network message for code ERR_NETWORK, else the server message
\* for status 500, else the generic fetch message; a 401 on scrape, mark-seen
\* or export shows the session message, any other failure of theirs does not.
\* (The classification of every status and code is compared when the
\* Dashboard mounts, the messages shown whenever a request fails.)
C17_ErrorClassification ==
    [][/\ lifecycle = "init" => FetchClassification
       /\ \A r \in reqs :
             (lifecycle = "mounted" /\ EndsInFailure(r)) =>
                 \A resp \in ErrorResponses :
                     \/ IF r.kind = "GET"
                        THEN error' = ExpectedFetchMessage(resp.status, resp.code)
                        ELSE (resp.status = 401) =
                                 (error' = "Session expired. Please login again.")
                     \/ ~Resumes(r, resp)]_vars

\* The server message on display after a fetch answered with status 500.
C17_Witness ==
    /\ lifecycle = "mounted" /\ ~loading
    /\ error = "Server error: detail"
    /\ ~lastFetch.ok

\* C18: exportListings sends one POST /listings/export with the format chosen
\* and include_seen the negation of showOnlyUnseen; sending it and its
\* success or failure leave listings, stats, loading and scraping as they
\* were and send no GET /listings; error changes only when the export fails.
C18_ExportFrame ==
    [][/\ \A r \in reqs' :
             (r.id > issued /\ r.kind = "EXPORT") =>
                 /\ r.format = "csv"
                 /\ r.includeSeen = ~showOnlyUnseen
                 /\ r.tok = token
                 /\ issued' = issued + 1
                 /\ UNCHANGED <<listings, stats, loading, scraping, error>>
       /\ \A r \in Outstanding("EXPORT") :
             Settles(r) =>
                 /\ UNCHANGED <<listings, stats, loading, scraping, issued>>
                 /\ reqs' = reqs \ {r}
                 /\ error' \in {error, "Session expired. Please login again.",
                                "Failed to export listings: detail"}
                 /\ (r.phase = "done" /\ exportListingsSettle(r, r.resp))
                       => error' = error]_vars

\* A second export in flight with the box checked, after a first one failed.
C18_Witness ==
    /\ lifecycle = "mounted" /\ showOnlyUnseen
    /\ error = "Failed to export listings: detail"
    /\ \E r \in Outstanding("EXPORT") : r.format = "csv" /\ ~r.includeSeen

====
